---- MODULE Spec2Model ----
(***************************************************************************)
(* Model of go/arrow/_tools/tmpl/main.go: the comment stripper             *)
(* (StripComments), the path-spec resolver (parsePath), the -d flag value  *)
(* (listValue.Set) and the generation pipeline (main, readData, process).  *)
(*                                                                         *)
(* Byte slices are sequences of one-character strings.  Go indexes from 0, *)
(* TLA+ from 1: the model keeps Go's 0-based indices and converts in At,   *)
(* Slice and Prefix only.                                                  *)
(***************************************************************************)
EXTENDS Integers, Sequences, FiniteSets, TLC

\* ------------------------------------------------------------------ bounds
MaxLen == 5

\* ------------------------------------------------------- byte-slice helpers
Bytes == {"/", "*", "\n", "\"", "'", "\\", "a"}

At(s, i) == s[i + 1]

Slice(s, from) == SubSeq(s, from + 1, Len(s))

Prefix(s, to) == SubSeq(s, 1, to)

Min(S) == CHOOSE x \in S : \A y \in S : x <= y

IndexByte(s, c) ==
    LET hits == {k \in 0..(Len(s) - 1) : At(s, k) = c}
    IN  IF hits = {} THEN -1 ELSE Min(hits)

Index(s, sep) ==
    LET hits == {k \in 0..(Len(s) - Len(sep)) : SubSeq(s, k + 1, k + Len(sep)) = sep}
    IN  IF hits = {} THEN -1 ELSE Min(hits)

HasSuffix(s, suf) ==
    /\ Len(s) >= Len(suf)
    /\ SubSeq(s, Len(s) - Len(suf) + 1, Len(s)) = suf

\* ------------------------------------------------------------ StripComments
ScanInit == [i |-> 0, quoted |-> FALSE, esc |-> FALSE, comment |-> FALSE, buf |-> <<>>]

LineCommentUnterminated(raw, s) ==
    LET j == IndexByte(Slice(raw, s.i + 1), "\n")
    IN  IF j = -1
        THEN [s EXCEPT !.i = Len(raw)]
        ELSE [s EXCEPT !.comment = FALSE, !.i = s.i + j]

LineComment(raw, s) ==
    LET j == IndexByte(Slice(raw, s.i + 1), "\n")
    IN  IF j = -1
        THEN [s EXCEPT !.comment = FALSE, !.i = Len(raw)]
        ELSE [s EXCEPT !.comment = FALSE, !.i = s.i + j]

BlockCommentKeepSlash(raw, s) ==
    LET j == Index(Slice(raw, s.i + 1), <<"*", "/">>)
    IN  IF j = -1
        THEN [s EXCEPT !.i = Len(raw)]
        ELSE [s EXCEPT !.i = s.i + j + 1, !.comment = FALSE]

BlockComment(raw, s) ==
    LET j == Index(Slice(raw, s.i + 1), <<"*", "/">>)
    IN  IF j = -1
        THEN [s EXCEPT !.i = Len(raw)]
        ELSE [s EXCEPT !.i = s.i + j + 2, !.comment = FALSE]

InCommentOneByte(raw, s) ==
    LET b == At(raw, s.i)
    IN  IF b = "/" THEN LineComment(raw, s)
        ELSE IF b = "*" THEN BlockComment(raw, s)
        ELSE [s EXCEPT !.comment = FALSE]

InComment(raw, s) ==
    LET b == At(raw, s.i)
    IN  IF b = "/" THEN LineComment(raw, s)
        ELSE IF b = "*" THEN BlockComment(raw, s)
        ELSE s

StartsEscape(b, s) == b = "\\" /\ s.quoted

BeginEscapeEmit(s, b) == [s EXCEPT !.esc = TRUE, !.buf = Append(s.buf, b)]

BeginEscape(s, b) == [s EXCEPT !.esc = TRUE]

IsQuoteDoubleOnly(b) == b = "\""

IsQuote(b) == b = "\"" \/ b = "'"

StartsCommentAnywhere(b, quoted) == b = "/"

StartsComment(b, quoted) == b = "/" /\ ~quoted

BeginCommentNewline(s, q) ==
    [s EXCEPT !.quoted = q, !.comment = TRUE, !.buf = Append(s.buf, "\n")]

BeginComment(s, q) == [s EXCEPT !.quoted = q, !.comment = TRUE]

Body(raw, s) ==
    LET b == At(raw, s.i)
    IN  IF s.comment THEN InComment(raw, s)
        ELSE IF s.esc THEN [s EXCEPT !.esc = FALSE]
        ELSE IF StartsEscape(b, s) THEN BeginEscape(s, b)
        ELSE LET q == IF IsQuote(b) THEN ~s.quoted ELSE s.quoted
             IN  IF StartsComment(b, q)
                 THEN BeginComment(s, q)
                 ELSE [s EXCEPT !.quoted = q, !.buf = Append(s.buf, b)]

Iter(raw, s) == [Body(raw, s) EXCEPT !.i = @ + 1]

RECURSIVE Loop(_, _)
Loop(raw, s) == IF s.i < Len(raw) THEN Loop(raw, Iter(raw, s)) ELSE s

RECURSIVE Visited(_, _)
Visited(raw, s) ==
    IF s.i < Len(raw) THEN <<s>> \o Visited(raw, Iter(raw, s)) ELSE <<s>>

UnexpectedNoComment(s) == s.quoted \/ s.esc

Unexpected(s) == s.quoted \/ s.esc \/ s.comment

Result(raw, s) == IF Unexpected(s) THEN raw ELSE s.buf

StripComments(raw) == Result(raw, Loop(raw, ScanInit))

\* ---------------------------------------------------------------- parsePath
Ext == <<".", "t", "m", "p", "l">>

GoExt == <<".", "g", "o">>

\* path/filepath.Ext: the suffix beginning at the final dot in the final
\* element of the path; empty if there is no dot.
RECURSIVE ExtFrom(_, _)
ExtFrom(p, i) ==
    IF i < 0 \/ At(p, i) = "/" THEN <<>>
    ELSE IF At(p, i) = "." THEN Slice(p, i)
    ELSE ExtFrom(p, i - 1)

FilepathExt(p) == ExtFrom(p, Len(p) - 1)

LastIndexByte(s, c) ==
    LET hits == {k \in 0..(Len(s) - 1) : At(s, k) = c}
    IN  IF hits = {} THEN -1 ELSE CHOOSE x \in hits : \A y \in hits : y <= x

parsePathLastEq(p) ==
    LET e == LastIndexByte(p, "=")
    IN  IF e = -1
        THEN IF FilepathExt(p) # Ext
             THEN [exit |-> TRUE, in |-> <<>>, out |-> <<>>]
             ELSE [exit |-> FALSE, in |-> p, out |-> Prefix(p, Len(p) - Len(Ext))]
        ELSE [exit |-> FALSE, in |-> Prefix(p, e), out |-> Slice(p, e + 1)]

parsePathAnyExt(p) ==
    LET e == IndexByte(p, "=")
    IN  IF e = -1
        THEN IF FilepathExt(p) = <<>>
             THEN [exit |-> TRUE, in |-> <<>>, out |-> <<>>]
             ELSE [exit |-> FALSE, in |-> p, out |-> Prefix(p, Len(p) - Len(Ext))]
        ELSE [exit |-> FALSE, in |-> Prefix(p, e), out |-> Slice(p, e + 1)]

parsePath(p) ==
    LET e == IndexByte(p, "=")
    IN  IF e = -1
        THEN IF FilepathExt(p) # Ext
             THEN [exit |-> TRUE, in |-> <<>>, out |-> <<>>]
             ELSE [exit |-> FALSE, in |-> p, out |-> Prefix(p, Len(p) - Len(Ext))]
        ELSE [exit |-> FALSE, in |-> Prefix(p, e), out |-> Slice(p, e + 1)]

IsGoFileByInput(spec) == FilepathExt(spec.in) = GoExt

IsGoFile(spec) == FilepathExt(spec.out) = GoExt

\* ------------------------------------------------------------ listValue.Set
\* strings.Split(v, "="): the pieces of v between the separators.
RECURSIVE Split(_, _)
Split(v, sep) ==
    LET e == IndexByte(v, sep)
    IN  IF e = -1 THEN <<v>>
        ELSE <<Prefix(v, e)>> \o Split(Slice(v, e + 1), sep)

Put(m, key, val) == [x \in DOMAIN m \cup {key} |-> IF x = key THEN val ELSE m[x]]

SetAcceptsAtLeastTwo(nv) == Len(nv) >= 2

SetAccepts(nv) == Len(nv) = 2

listValueSet(m, v) ==
    LET nv == Split(v, "=")
    IN  IF ~SetAccepts(nv)
        THEN [err |-> TRUE, l |-> m]
        ELSE [err |-> FALSE, l |-> Put(m, nv[1], nv[2])]

\* ------------------------------------------------------------------- state
VARIABLES raw, fin, out, out2, spc,
          parg, pspec, ppc,
          l, tok, serr, nset,
          dataArg, gi, args, umask, fs,
          formatter, specs, In, idx, pc, exitCode, calls

stripVars == <<raw, fin, out, out2, spc>>
pathVars == <<parg, pspec, ppc>>
setVars == <<l, tok, serr, nset>>
flagVars == <<dataArg, gi>>
runVars == <<formatter, specs, In, idx>>
pipeVars == <<flagVars, args, umask, fs, runVars, pc, exitCode, calls>>
vars == <<stripVars, pathVars, setVars, pipeVars>>

EmptyMap == [x \in {} |-> <<>>]

StripIdle == raw = <<>> /\ fin = ScanInit /\ out = <<>> /\ out2 = <<>> /\ spc = "idle"
PathIdle == parg = <<>> /\ pspec = [exit |-> FALSE, in |-> <<>>, out |-> <<>>] /\ ppc = "idle"
SetIdle == l = EmptyMap /\ tok = <<>> /\ serr = FALSE /\ nset = 0
PipeIdle ==
    /\ dataArg = <<>> /\ gi = FALSE /\ args = <<>>
    /\ umask = {} /\ fs = <<>>
    /\ formatter = "nil" /\ specs = <<>> /\ In = <<>> /\ idx = 0
    /\ pc = "idle" /\ exitCode = -1 /\ calls = <<>>

\* ------------------------------------------- specification: StripComments
SeqsUpTo(S, n) == UNION {[1..k -> S] : k \in 0..n}

InitStrip ==
    /\ raw \in SeqsUpTo(Bytes, MaxLen)
    /\ fin = ScanInit /\ out = <<>> /\ out2 = <<>> /\ spc = "start"
    /\ PathIdle /\ SetIdle /\ PipeIdle

\* one call StripComments(raw): the loop, then the end-state test
Strip ==
    /\ spc = "start"
    /\ fin' = Loop(raw, ScanInit)
    /\ out' = Result(raw, fin')
    /\ spc' = "stripped"
    /\ UNCHANGED <<raw, out2, pathVars, setVars, pipeVars>>

\* a second call, on the bytes the first one returned
StripAgain ==
    /\ spc = "stripped"
    /\ out2' = StripComments(out)
    /\ spc' = "again"
    /\ UNCHANGED <<raw, fin, out, pathVars, setVars, pipeVars>>

NextStrip == Strip \/ StripAgain

SpecStrip == InitStrip /\ [][NextStrip]_vars

\* ------------------------------------------------ specification: parsePath
MaxPieces == 4

PathPieces == {<<"a">>, Ext, GoExt, <<"=">>, <<"/">>}

RECURSIVE Flatten(_)
Flatten(ss) == IF ss = <<>> THEN <<>> ELSE Head(ss) \o Flatten(Tail(ss))

PathArgs == {Flatten(ss) : ss \in SeqsUpTo(PathPieces, MaxPieces)}

InitPath ==
    /\ parg \in PathArgs
    /\ pspec = [exit |-> FALSE, in |-> <<>>, out |-> <<>>] /\ ppc = "start"
    /\ StripIdle /\ SetIdle /\ PipeIdle

ParsePathReturn ==
    /\ ppc = "start"
    /\ ~parsePath(parg).exit
    /\ pspec' = parsePath(parg)
    /\ ppc' = "returned"
    /\ UNCHANGED <<parg, stripVars, setVars, pipeVars>>

ParsePathExit ==
    /\ ppc = "start"
    /\ parsePath(parg).exit
    /\ pspec' = parsePath(parg)
    /\ ppc' = "exited"
    /\ UNCHANGED <<parg, stripVars, setVars, pipeVars>>

NextPath == ParsePathReturn \/ ParsePathExit

SpecPath == InitPath /\ [][NextPath]_vars

\* -------------------------------------------- specification: listValue.Set
MaxTok == 4
MaxSets == 2

TokBytes == {"A", "B", "="}

Tokens == SeqsUpTo(TokBytes, MaxTok)

InitSet ==
    /\ l = EmptyMap /\ tok = <<>> /\ serr = FALSE /\ nset = 0
    /\ StripIdle /\ PathIdle /\ PipeIdle

\* flag.Parse hands each -d token to Set; an error from Set ends the parse
Set(v) ==
    /\ ~serr
    /\ nset < MaxSets
    /\ tok' = v
    /\ nset' = nset + 1
    /\ l' = listValueSet(l, v).l
    /\ serr' = listValueSet(l, v).err
    /\ UNCHANGED <<stripVars, pathVars, pipeVars>>

NextSet == \E v \in Tokens : Set(v)

SpecSet == InitSet /\ [][NextSet]_vars

\* ------------------------------------------- specification: main / process
MaxSpecs == 2

\* file names used on the command line
TmplPath == <<"a", ".", "t", "m", "p", "l">>
PlainPath == <<"a">>
GoPath == <<"a", ".", "g", "o">>
GoPath2 == <<"b", ".", "g", "o">>
DataPath == <<"d">>

Paths == {TmplPath, PlainPath, GoPath, GoPath2}

ArgPool == {TmplPath,
            TmplPath \o <<"=">> \o GoPath,
            GoPath \o <<"=">> \o GoPath2,
            GoPath \o <<"=">> \o PlainPath,
            GoPath}

\* file contents are sequences of lines; a line is its text, the value
\* substituted into it, and the layout it is in
Line(t, a) == [t |-> t, a |-> a, f |-> "raw"]

TGood == <<Line("package p", <<>>), Line("{{.In}}", <<>>)>>
TBadParse == <<Line("{{", <<>>)>>
TBadExec == <<Line("package p", <<>>), Line("{{.In.Missing}}", <<>>)>>
TBadGo == <<Line("func (", <<>>)>>
TOld == <<Line("old", <<>>)>>

Templates == {TGood, TBadParse, TBadExec, TBadGo}

\* permission bits
M644 == {"ur", "uw", "gr", "or"}
M664 == {"ur", "uw", "gr", "gw", "or"}
M600 == {"ur", "uw"}
U022 == {"gw", "ow"}

Absent == [exists |-> FALSE, content |-> <<>>, mode |-> {}]

File(c, m) == [exists |-> TRUE, content |-> c, mode |-> m]

\* data documents the -data file may hold, and the -d tokens given
DataDocs == {<<"a">>, <<"a", "/", "/", "a">>, <<"a", "/", "*">>, <<"a", "a">>}

DTokLists == {<<>>, <<<<"A", "=", "B">>>>, <<<<"A">>>>}

\* json.Unmarshal accepts the document: a scalar or a double-quoted string
\* of plain bytes, with newlines around it
RECURSIVE TrimNL(_)
TrimNL(b) ==
    IF b # <<>> /\ Head(b) = "\n" THEN TrimNL(Tail(b))
    ELSE IF b # <<>> /\ b[Len(b)] = "\n" THEN TrimNL(Prefix(b, Len(b) - 1))
    ELSE b

JSONValid(b) ==
    LET t == TrimNL(b)
    IN  \/ t = <<"a">>
        \/ /\ Len(t) >= 2 /\ t[1] = "\"" /\ t[Len(t)] = "\""
           /\ \A k \in 2..(Len(t) - 1) : t[k] \in {"a", "/", "*", "'"}

\* text/template: Parse, Execute
ParseFails(c) == \E k \in 1..Len(c) : c[k].t = "{{"

ExecFails(c) == \E k \in 1..Len(c) : c[k].t = "{{.In.Missing}}"

Render(c, data) ==
    [k \in 1..Len(c) |-> IF c[k].t = "{{.In}}" THEN Line("value", data) ELSE c[k]]

\* the generated-file preamble
Preamble(spec) ==
    <<Line("// Code generated by %s. DO NOT EDIT.\n", spec.in), Line("\n", <<>>)>>

\* the two formatters: both reject source that does not parse and lay out
\* the rest; goimports also fixes the import block
FormatFails(b) == \E k \in 1..Len(b) : b[k].t = "func ("

Layout(b, how) == [k \in 1..Len(b) |-> [b[k] EXCEPT !.f = how]]

Format(f, b) == Layout(b, IF f = "formatSource" THEN "goimports" ELSE "gofmt")

\* os.WriteFile: creates the file with perm less the umask if it does not
\* exist, otherwise truncates it and leaves its permissions alone
WriteFile(files, name, bytes, perm, um) ==
    [files EXCEPT ![name] =
        IF files[name].exists
        THEN File(bytes, files[name].mode)
        ELSE File(bytes, perm \ um)]

Call(op, k, name, bytes, how) ==
    [op |-> op, k |-> k, path |-> name, bytes |-> bytes, how |-> how]

InitMain ==
    /\ args \in SeqsUpTo(ArgPool, MaxSpecs)
    /\ umask \in {{}, U022}
    /\ fs \in [Paths -> {Absent} \cup {File(c, m) : c \in Templates \cup {TOld}, m \in {M644, M664, M600}}]
    /\ fs[PlainPath] = Absent /\ fs[GoPath2] = Absent
    /\ fs[TmplPath] = Absent \/ (fs[TmplPath].content \in Templates /\ fs[TmplPath].mode \in {M644, M664})
    /\ fs[GoPath] = Absent \/ (fs[GoPath].content = TOld /\ fs[GoPath].mode = M600)
    /\ dataArg = <<>> /\ gi = FALSE
    /\ formatter = "nil" /\ specs = <<>> /\ In = <<>> /\ idx = 0
    /\ pc = "flags" /\ exitCode = -1 /\ calls = <<>>
    /\ StripIdle /\ PathIdle /\ SetIdle

Exit(code) == pc' = "exit" /\ exitCode' = code

\* flag.Parse: -data, -i and every -d token, each token handed to Set
RECURSIVE SetAll(_, _)
SetAll(m, toks) ==
    IF toks = <<>> THEN [err |-> FALSE, l |-> m]
    ELSE LET r == listValueSet(m, Head(toks))
         IN  IF r.err THEN r ELSE SetAll(r.l, Tail(toks))

FlagParse ==
    /\ pc = "flags"
    /\ \E d \in {<<>>, DataPath}, i \in BOOLEAN, toks \in DTokLists :
          LET r == SetAll(l, toks)
          IN  /\ dataArg' = d
              /\ gi' = i
              /\ l' = r.l
              /\ IF r.err THEN Exit(2) ELSE pc' = "data" /\ exitCode' = exitCode
    /\ UNCHANGED <<stripVars, pathVars, tok, serr, nset, args, umask, fs, runVars, calls>>

CheckDataNoExit ==
    /\ pc = "data"
    /\ pc' = "formatter"
    /\ UNCHANGED <<stripVars, pathVars, setVars, flagVars, args, umask, fs, runVars, exitCode, calls>>

CheckData ==
    /\ pc = "data"
    /\ IF dataArg = <<>> THEN Exit(1) ELSE pc' = "formatter" /\ exitCode' = exitCode
    /\ UNCHANGED <<stripVars, pathVars, setVars, flagVars, args, umask, fs, runVars, calls>>

SelectFormatter ==
    /\ pc = "formatter"
    /\ IF gi
       THEN \E found \in BOOLEAN :
               /\ calls' = Append(calls, Call("LookPath", 0, <<>>, <<>>, IF found THEN "ok" ELSE "err"))
               /\ IF found
                  THEN formatter' = "formatSource" /\ pc' = "paths" /\ exitCode' = exitCode
                  ELSE formatter' = formatter /\ Exit(1)
       ELSE /\ formatter' = "format.Source"
            /\ pc' = "paths"
            /\ UNCHANGED <<exitCode, calls>>
    /\ UNCHANGED <<stripVars, pathVars, setVars, flagVars, args, umask, fs, specs, In, idx>>

CheckPaths ==
    /\ pc = "paths"
    /\ IF Len(args) = 0 THEN Exit(1) ELSE pc' = "parse" /\ exitCode' = exitCode
    /\ UNCHANGED <<stripVars, pathVars, setVars, flagVars, args, umask, fs, runVars, calls>>

ParsePaths ==
    /\ pc = "parse"
    /\ IF \E k \in 1..Len(args) : parsePath(args[k]).exit
       THEN Exit(1) /\ specs' = specs
       ELSE /\ specs' = [k \in 1..Len(args) |->
                           [in |-> parsePath(args[k]).in, out |-> parsePath(args[k]).out]]
            /\ pc' = "readData"
            /\ exitCode' = exitCode
    /\ UNCHANGED <<stripVars, pathVars, setVars, flagVars, args, umask, fs, formatter, In, idx, calls>>

\* readData: mustReadAll, StripComments, json.Unmarshal
ReadData ==
    /\ pc = "readData"
    /\ \/ /\ calls' = Append(calls, Call("ReadFile", 0, dataArg, <<>>, "err"))
          /\ Exit(1)
          /\ UNCHANGED <<In, idx>>
       \/ \E doc \in DataDocs :
             /\ calls' = Append(calls, Call("ReadFile", 0, dataArg, doc, "ok"))
             /\ IF JSONValid(StripComments(doc))
                THEN In' = StripComments(doc) /\ idx' = 1 /\ pc' = "process" /\ exitCode' = exitCode
                ELSE Exit(1) /\ UNCHANGED <<In, idx>>
    /\ UNCHANGED <<stripVars, pathVars, setVars, flagVars, args, umask, fs, formatter, specs>>

GenerateIgnoreExecError(spec) ==
    LET src == fs[spec.in]
        pre == IF IsGoFile(spec) THEN Preamble(spec) ELSE <<>>
        buf == pre \o Render(src.content, In)
        rd == <<Call("ReadFile", idx, spec.in, src.content, IF src.exists THEN "ok" ELSE "err")>>
        fm == IF IsGoFile(spec) THEN <<Call("formatter", idx, <<>>, buf, formatter)>> ELSE <<>>
    IN  IF ~src.exists THEN [fail |-> "read", bytes |-> <<>>, calls |-> rd]
        ELSE IF ParseFails(src.content) THEN [fail |-> "parse", bytes |-> <<>>, calls |-> rd]
        ELSE IF IsGoFile(spec) /\ FormatFails(buf)
             THEN [fail |-> "format", bytes |-> <<>>, calls |-> rd \o fm]
        ELSE [fail |-> "none",
              bytes |-> IF IsGoFile(spec) THEN Format(formatter, buf) ELSE buf,
              calls |-> rd \o fm]

\* one iteration of the loop in process, up to the write
Generate(spec) ==
    LET src == fs[spec.in]
        pre == IF IsGoFile(spec) THEN Preamble(spec) ELSE <<>>
        buf == pre \o Render(src.content, In)
        rd == <<Call("ReadFile", idx, spec.in, src.content, IF src.exists THEN "ok" ELSE "err")>>
        fm == IF IsGoFile(spec) THEN <<Call("formatter", idx, <<>>, buf, formatter)>> ELSE <<>>
    IN  IF ~src.exists THEN [fail |-> "read", bytes |-> <<>>, calls |-> rd]
        ELSE IF ParseFails(src.content) THEN [fail |-> "parse", bytes |-> <<>>, calls |-> rd]
        ELSE IF ExecFails(src.content) THEN [fail |-> "execute", bytes |-> <<>>, calls |-> rd]
        ELSE IF IsGoFile(spec) /\ FormatFails(buf)
             THEN [fail |-> "format", bytes |-> <<>>, calls |-> rd \o fm]
        ELSE [fail |-> "none",
              bytes |-> IF IsGoFile(spec) THEN Format(formatter, buf) ELSE buf,
              calls |-> rd \o fm]

ProcessExit ==
    /\ pc = "process"
    /\ idx <= Len(specs)
    /\ Generate(specs[idx]).fail # "none"
    /\ calls' = calls \o Generate(specs[idx]).calls
    /\ Exit(1)
    /\ UNCHANGED <<stripVars, pathVars, setVars, flagVars, args, umask, fs, runVars>>

\* the write: the error os.WriteFile returns is dropped
ProcessWrite ==
    /\ pc = "process"
    /\ idx <= Len(specs)
    /\ LET spec == specs[idx]
           g == Generate(spec)
           perm == fs[spec.in].mode
       IN  /\ g.fail = "none"
           /\ \E res \in {"ok", "err"} :
                 /\ calls' = calls \o g.calls
                               \o <<Call("Stat", idx, spec.in, <<>>, "ok"),
                                    Call("WriteFile", idx, spec.out, g.bytes, res)>>
                 /\ fs' = IF res = "ok" THEN WriteFile(fs, spec.out, g.bytes, perm, umask) ELSE fs
    /\ idx' = idx + 1
    /\ UNCHANGED <<stripVars, pathVars, setVars, flagVars, args, umask, formatter, specs, In, pc, exitCode>>

\* process and main return
Return ==
    /\ pc = "process"
    /\ idx > Len(specs)
    /\ Exit(0)
    /\ UNCHANGED <<stripVars, pathVars, setVars, flagVars, args, umask, fs, runVars, calls>>

Next ==
    \/ FlagParse \/ CheckData \/ SelectFormatter \/ CheckPaths \/ ParsePaths
    \/ ReadData \/ ProcessExit \/ ProcessWrite \/ Return

Spec == InitMain /\ [][Next]_vars

\* ================================================================== claims
Stripped == spc \in {"stripped", "again"}

Contains(s, c) == \E k \in 1..Len(s) : s[k] = c

Count(s, c) == Cardinality({k \in 1..Len(s) : s[k] = c})

\* the scanner, in comment mode, meets the '*' of a block comment that no
\* later "*/" closes
UnclosedBlockAt(s) ==
    /\ s.i < Len(raw)
    /\ s.comment
    /\ At(raw, s.i) = "*"
    /\ \A k \in (s.i + 1)..(Len(raw) - 2) : ~(At(raw, k) = "*" /\ At(raw, k + 1) = "/")

OpensUnclosedBlock ==
    LET v == Visited(raw, ScanInit)
    IN  \E k \in 1..Len(v) : UnclosedBlockAt(v[k])

\* the first '/' of the input has no quote byte before it, is followed by
\* '*', and no "*/" follows
LeadingUnclosedBlock ==
    \E p \in 1..(Len(raw) - 1) :
        /\ raw[p] = "/" /\ raw[p + 1] = "*"
        /\ \A k \in 1..(p - 1) : raw[k] \notin {"/", "\"", "'"}
        /\ \A k \in (p + 2)..(Len(raw) - 1) : ~(raw[k] = "*" /\ raw[k + 1] = "/")

\* C1: StripComments never returns a partially stripped buffer: when the
\* scan ends inside a quoted string, with a pending escape or inside an
\* unterminated comment, the result is the input unchanged; in particular
\* an input with a block comment opened outside a quoted string and never
\* closed is returned unchanged.
C1_NoPartialStrip ==
    Stripped =>
        /\ (fin.quoted \/ fin.esc \/ fin.comment) => out = raw
        /\ OpensUnclosedBlock => out = raw
        /\ LeadingUnclosedBlock => out = raw

C1_Witness ==
    /\ spc = "stripped"
    /\ OpensUnclosedBlock /\ LeadingUnclosedBlock
    /\ fin.comment /\ fin.buf # <<>> /\ fin.buf # raw
    /\ out = raw

\* raw is one double-quoted string whose interior is made of plain bytes
\* and backslash escapes, at least one of them an escape
RECURSIVE EscapedInterior(_, _)
EscapedInterior(s, seen) ==
    IF s = <<>> THEN seen
    ELSE IF Head(s) = "\\" THEN Len(s) >= 2 /\ EscapedInterior(Tail(Tail(s)), TRUE)
    ELSE Head(s) \notin {"\"", "'"} /\ EscapedInterior(Tail(s), seen)

QuotedWithEscape(s) ==
    /\ Len(s) >= 4
    /\ s[1] = "\"" /\ s[Len(s)] = "\""
    /\ EscapedInterior(SubSeq(s, 2, Len(s) - 1), FALSE)

\* C2: a quoted string containing a backslash escape is preserved verbatim
\* by StripComments (backslash and escaped byte both emitted) and the
\* escaped quote does not toggle the quoted-string state.
C2_EscapePreserved ==
    (Stripped /\ QuotedWithEscape(raw)) => (out = raw /\ ~fin.quoted)

\* C3: StripComments is idempotent: StripComments(StripComments(x)) equals
\* StripComments(x), whether the first call strips or falls back.
C3_Idempotent == spc = "again" => out2 = out

C3_Witness ==
    /\ spc = "again"
    /\ ~Unexpected(fin) /\ out = fin.buf /\ out # raw /\ out # <<>>
    /\ Contains(raw, "\\") /\ Contains(raw, "/")

HasEq(p) == Contains(p, "=")

\* C6: parsePath: without '=' the input path is the whole argument and the
\* output path is the argument less exactly one trailing ".tmpl"; with '='
\* the input path is the text before the first '=' and the output path is
\* everything after it verbatim, with no extension check on either side.
C6_ParsePathResolves ==
    /\ (ppc = "returned" /\ ~HasEq(parg)) =>
           (pspec.in = parg /\ pspec.out \o Ext = parg)
    /\ (ppc = "returned" /\ HasEq(parg)) =>
           (pspec.in \o <<"=">> \o pspec.out = parg /\ ~HasEq(pspec.in))
    /\ (ppc = "exited") => ~HasEq(parg)

C6_Witness ==
    /\ ppc = "returned"
    /\ Count(parg, "=") = 2 /\ HasEq(pspec.out)
    /\ ~HasSuffix(pspec.in, Ext) /\ pspec.in # <<>>

\* C7: parsePath fails with a usage error exactly when the argument has no
\* '=' and does not end in ".tmpl"; so every path spec built from an
\* argument without '=' has an input path ending in ".tmpl".
C7_ParsePathUsageError ==
    /\ (ppc \in {"returned", "exited"}) =>
           (ppc = "exited" <=> (~HasEq(parg) /\ ~HasSuffix(parg, Ext)))
    /\ (ppc = "returned" /\ ~HasEq(parg)) => HasSuffix(pspec.in, Ext)

C7_Witness ==
    /\ ppc = "exited"
    /\ HasSuffix(parg, GoExt) /\ Contains(parg, "/")

\* C10 as stated: Set accepts every token that contains an '=' and rejects
\* only tokens that contain none.
C10_AcceptsAnyEq == nset > 0 => (serr <=> ~HasEq(tok))

\* C10 as amended: Set accepts exactly the tokens with exactly one '=',
\* storing the text before it under the text after it; every other token
\* (no '=' or more than one) is rejected and leaves the mapping unchanged.
C10_AcceptsExactlyOneEq ==
    [][nset' = nset + 1 =>
         IF Count(tok', "=") = 1
         THEN LET e == IndexByte(tok', "=")
              IN  /\ ~serr'
                  /\ DOMAIN l' = DOMAIN l \cup {Prefix(tok', e)}
                  /\ l'[Prefix(tok', e)] = Slice(tok', e + 1)
                  /\ \A x \in DOMAIN l \ {Prefix(tok', e)} : l'[x] = l[x]
         ELSE serr' /\ l' = l]_vars

C10_Witness ==
    /\ nset = 2 /\ serr
    /\ Count(tok, "=") = 2
    /\ DOMAIN l # {}

\* the calls of one kind made so far for spec k
CallsOf(op, k) == {n \in 1..Len(calls) : calls[n].op = op /\ calls[n].k = k}

\* reading, parsing, executing or formatting the template of this spec fails
TemplateFails(spec) ==
    \/ ~fs[spec.in].exists
    \/ ParseFails(fs[spec.in].content)
    \/ ExecFails(fs[spec.in].content)
    \/ /\ HasSuffix(spec.out, GoExt)
       /\ \E k \in 1..Len(fs[spec.in].content) : fs[spec.in].content[k].t = "func ("

\* C4: the pipeline fails fast: when reading, parsing, executing or
\* formatting the template of the k-th spec fails, the process terminates
\* with a non-zero status, no output file is written for spec k or a later
\* one, and the files written for the specs before k are left as written
\* (the failing step changes no file and no step follows the exit).
C4_FailFast ==
    [][/\ pc # "exit"
       /\ (pc = "process" /\ idx <= Len(specs) /\ TemplateFails(specs[idx])) =>
              /\ pc' = "exit" /\ exitCode' = 1
              /\ fs' = fs
              /\ \A n \in 1..Len(calls') : calls'[n].op = "WriteFile" => calls'[n].k < idx
              /\ \A j \in 1..(idx - 1) : \E n \in 1..Len(calls') :
                     calls'[n].op = "WriteFile" /\ calls'[n].k = j]_vars

C4_Witness ==
    /\ pc = "exit" /\ exitCode = 1
    /\ Len(specs) = 2 /\ idx = 2
    /\ CallsOf("WriteFile", 2) = {}
    /\ \E n \in CallsOf("WriteFile", 1) :
          /\ calls[n].how = "ok"
          /\ fs[specs[1].out] = File(calls[n].bytes, fs[specs[1].out].mode)
    /\ \E n \in CallsOf("ReadFile", 2) : calls[n].how = "ok"

\* C5: the process exits with status zero only on success: any error,
\* including a failure to write an output file, gives a non-zero status,
\* so a run that exits zero has written every spec's output file.
C5_ZeroMeansAllWritten ==
    (pc = "exit" /\ exitCode = 0) =>
        \A k \in 1..Len(specs) :
            /\ fs[specs[k].out].exists
            /\ \A n \in CallsOf("WriteFile", k) : calls[n].how = "ok"

\* C8: the marker and the formatter are applied exactly to the specs whose
\* output path ends in ".go", whatever the input path: the bytes handed to
\* the formatter are the marker line naming the input template, a blank
\* line and the rendered content; the strategy is the one selected before
\* the first spec; every other spec's written bytes are exactly the
\* rendered template, with no marker and no formatter call.
C8_MarkerAndFormatter ==
    /\ \A n \in 1..Len(calls) : calls[n].op = "formatter" =>
          LET k == calls[n].k
          IN  /\ HasSuffix(specs[k].out, GoExt)
              /\ calls[n].how = (IF gi THEN "formatSource" ELSE "format.Source")
              /\ calls[n].how = formatter
              /\ Len(calls[n].bytes) >= 2
              /\ calls[n].bytes[1].t = "// Code generated by %s. DO NOT EDIT.\n"
              /\ calls[n].bytes[1].a = specs[k].in
              /\ calls[n].bytes[2].t = "\n"
              /\ n > 1 /\ calls[n - 1].op = "ReadFile" /\ calls[n - 1].k = k
              /\ SubSeq(calls[n].bytes, 3, Len(calls[n].bytes)) = Render(calls[n - 1].bytes, In)
    /\ \A n \in 1..Len(calls) : calls[n].op = "WriteFile" =>
          LET k == calls[n].k
          IN  IF HasSuffix(specs[k].out, GoExt)
              THEN /\ n > 3 /\ calls[n - 2].op = "formatter" /\ calls[n - 2].k = k
                   /\ Len(calls[n].bytes) = Len(calls[n - 2].bytes)
                   /\ \A m \in 1..Len(calls[n].bytes) :
                         /\ calls[n].bytes[m].t = calls[n - 2].bytes[m].t
                         /\ calls[n].bytes[m].a = calls[n - 2].bytes[m].a
                         /\ calls[n].bytes[m].f = (IF gi THEN "goimports" ELSE "gofmt")
              ELSE /\ n > 2 /\ calls[n - 2].op = "ReadFile" /\ calls[n - 2].k = k
                   /\ calls[n].bytes = Render(calls[n - 2].bytes, In)
                   /\ CallsOf("formatter", k) = {}

C8_Witness ==
    /\ pc = "exit" /\ exitCode = 0 /\ gi
    /\ Len(specs) = 2
    /\ HasSuffix(specs[1].in, GoExt) /\ ~HasSuffix(specs[1].out, GoExt)
    /\ ~HasSuffix(specs[2].in, GoExt) /\ HasSuffix(specs[2].out, GoExt)
    /\ CallsOf("formatter", 1) = {} /\ CallsOf("formatter", 2) # {}
    /\ \A k \in 1..2 : \E n \in CallsOf("WriteFile", k) : calls[n].how = "ok"

\* C9: after a successful run every generated output file carries the
\* permission bits of its input template, also when the write overwrote a
\* file that existed with other permission bits.
C9_InheritsMode ==
    (pc = "exit" /\ exitCode = 0) =>
        \A k \in 1..Len(specs) :
            (\A n \in CallsOf("WriteFile", k) : calls[n].how = "ok") =>
                fs[specs[k].out].mode = fs[specs[k].in].mode

\* the scanner states of the call, in the order the loop visits them
Scan == Visited(raw, ScanInit)

Normal(s) == ~s.comment /\ ~s.esc

\* the scanner, outside a quoted string, is at a quote byte that opens a
\* quoted string closed at index q: no quote byte and no backslash lies
\* between, and the string holds a "//" or a "/*"
QuotedStringWithSlash(s, q) ==
    /\ s.i < q /\ q < Len(raw)
    /\ Normal(s) /\ ~s.quoted
    /\ IsQuote(At(raw, s.i)) /\ IsQuote(At(raw, q))
    /\ \A k \in (s.i + 1)..(q - 1) : At(raw, k) \notin {"\"", "'", "\\"}
    /\ \E k \in (s.i + 1)..(q - 2) : At(raw, k) = "/" /\ At(raw, k + 1) \in {"/", "*"}

\* C11: a '/' inside a quoted string never starts a comment: a quoted
\* string holding a literal "//" or "/*" (and no backslash) is copied to
\* the buffer byte for byte and the scan goes on, outside the string and
\* outside any comment, at the byte after its closing quote.
C11_QuotedSlashCopied ==
    spc = "stripped" =>
        LET v == Scan
        IN  \A k \in 1..Len(v) : \A q \in (v[k].i + 2)..(Len(raw) - 1) :
                QuotedStringWithSlash(v[k], q) =>
                    \E m \in (k + 1)..Len(v) :
                        /\ v[m].i = q + 1
                        /\ v[m].buf = v[k].buf \o SubSeq(raw, v[k].i + 1, q + 1)
                        /\ Normal(v[m]) /\ ~v[m].quoted

C11_Witness ==
    /\ spc = "stripped"
    /\ QuotedStringWithSlash(Scan[1], 3)
    /\ Len(raw) = 5 /\ raw[5] = "a"
    /\ out = raw

\* s can be obtained from t by deleting bytes
RECURSIVE IsSubsequence(_, _)
IsSubsequence(s, t) ==
    IF s = <<>> THEN TRUE
    ELSE IF t = <<>> THEN FALSE
    ELSE IF Head(s) = Head(t) THEN IsSubsequence(Tail(s), Tail(t))
    ELSE IsSubsequence(s, Tail(t))

\* C12: StripComments introduces no bytes: its result is a subsequence of
\* the input, the kept bytes in their original order.
C12_OutputIsSubsequence ==
    spc = "stripped" => (IsSubsequence(out, raw) /\ IsSubsequence(fin.buf, raw))

C12_Witness ==
    /\ spc = "stripped"
    /\ out = fin.buf /\ out # raw /\ Len(out) >= 3
    /\ Contains(raw, "/") /\ Contains(raw, "\\")

\* the calls made by process, in the order they were made
ProcessCalls == SelectSeq(calls, LAMBDA c : c.k >= 1)

\* process handles one spec at a time, in argument order, and each spec in
\* the order read, format (".go" outputs only), stat, write
CallsInOrder ==
    LET p == ProcessCalls
    IN  /\ \A n \in 1..Len(p) : p[n].k \in 1..Len(specs)
        /\ \A n \in 1..(Len(p) - 1) :
              \/ /\ p[n + 1].k = p[n].k
                 /\ <<p[n].op, p[n + 1].op>> \in
                       {<<"ReadFile", "formatter">>, <<"ReadFile", "Stat">>,
                        <<"formatter", "Stat">>, <<"Stat", "WriteFile">>}
              \/ /\ p[n + 1].k = p[n].k + 1
                 /\ p[n].op = "WriteFile" /\ p[n + 1].op = "ReadFile"
        /\ Len(p) > 0 => (p[1].k = 1 /\ p[1].op = "ReadFile")
        /\ \A n \in 1..Len(p) :
              /\ p[n].op \in {"ReadFile", "Stat"} => p[n].path = specs[p[n].k].in
              /\ p[n].op = "WriteFile" => p[n].path = specs[p[n].k].out

\* a spec whose input path is the output path of an earlier spec reads
\* what the latest such spec generated
ReadsFreshContent ==
    \A n \in 1..Len(calls) :
        (calls[n].op = "ReadFile" /\ calls[n].k >= 2) =>
            LET earlier == {m \in 1..(n - 1) : calls[m].op = "WriteFile"
                                                /\ calls[m].path = calls[n].path}
            IN  earlier # {} =>
                    LET m == CHOOSE x \in earlier : \A y \in earlier : y <= x
                    IN  calls[n].how = "ok" /\ calls[n].bytes = calls[m].bytes

\* C13: path specs are processed strictly one at a time in argument order,
\* each through read, parse, marker, execute, format, write in that order;
\* the output file of spec i is written before the template of spec i+1 is
\* read, so a later spec whose input path is an earlier spec's output path
\* reads the freshly generated content.
C13_SequentialAndFresh == CallsInOrder /\ ReadsFreshContent

\* comments deleted textually: outside quoted strings "//" is deleted up to
\* the next newline (kept) or the end of input, "/*" through the first
\* following "*/"; a quoted string runs from a quote byte to the next one.
\* ok is FALSE when the text has an unclosed string or block comment, or a
\* '/' outside strings that begins no comment.
RECURSIVE Deleted(_, _, _)
Deleted(t, p, acc) ==
    IF p >= Len(t) THEN [ok |-> TRUE, text |-> acc]
    ELSE LET b == At(t, p)
             quotes == {q \in (p + 1)..(Len(t) - 1) : At(t, q) \in {"\"", "'"}}
             newlines == {q \in (p + 2)..(Len(t) - 1) : At(t, q) = "\n"}
             closers == {q \in (p + 2)..(Len(t) - 2) : At(t, q) = "*" /\ At(t, q + 1) = "/"}
             nxt == IF p + 1 < Len(t) THEN At(t, p + 1) ELSE ""
         IN  IF b \in {"\"", "'"}
             THEN IF quotes = {} THEN [ok |-> FALSE, text |-> acc]
                  ELSE Deleted(t, Min(quotes) + 1, acc \o SubSeq(t, p + 1, Min(quotes) + 1))
             ELSE IF b = "/" /\ nxt = "/"
             THEN Deleted(t, IF newlines = {} THEN Len(t) ELSE Min(newlines), acc)
             ELSE IF b = "/" /\ nxt = "*"
             THEN IF closers = {} THEN [ok |-> FALSE, text |-> acc]
                  ELSE Deleted(t, Min(closers) + 2, acc)
             ELSE IF b = "/" THEN [ok |-> FALSE, text |-> acc]
             ELSE Deleted(t, p + 1, Append(acc, b))

\* C14: on an input with no backslash, balanced quotes, every block
\* comment closed and every '/' outside a quoted string beginning a "//"
\* or "/*" comment, StripComments returns the input with each line comment
\* deleted up to (not including) the next newline or through end of input
\* and each block comment deleted through the first following "*/", all
\* other bytes kept in order.
C14_DeletesCommentsExactly ==
    spc = "stripped" =>
        LET d == Deleted(raw, 0, <<>>)
        IN  (~Contains(raw, "\\") /\ d.ok) => out = d.text

C14_Witness ==
    /\ spc = "stripped"
    /\ Deleted(raw, 0, <<>>).ok
    /\ raw = <<"/", "*", "*", "/", "a">>
    /\ out = <<"a">>

\* the scanner, in comment mode, is at the second '/' of a line comment
AtLineComment(s) == s.i < Len(raw) /\ s.comment /\ At(raw, s.i) = "/"

NewlinesAfter(s) == {q \in (s.i + 1)..(Len(raw) - 1) : At(raw, q) = "\n"}

\* C15: a line comment is ended by the next newline, which is kept in the
\* output; a line comment that runs to the end of input counts as
\* terminated, and StripComments then returns the stripped output (what
\* was kept before the "//"), not the original bytes.
C15_LineCommentEnds ==
    spc = "stripped" =>
        LET v == Scan
        IN  \A k \in 1..Len(v) : AtLineComment(v[k]) =>
                IF NewlinesAfter(v[k]) # {}
                THEN /\ k + 2 <= Len(v)
                     /\ v[k + 1] = [v[k] EXCEPT !.comment = FALSE, !.i = Min(NewlinesAfter(v[k]))]
                     /\ v[k + 2] = [v[k + 1] EXCEPT !.buf = Append(v[k].buf, "\n"),
                                                    !.i = v[k + 1].i + 1]
                ELSE /\ k + 1 = Len(v)
                     /\ fin = [v[k] EXCEPT !.comment = FALSE, !.i = Len(raw) + 1]
                     /\ out = v[k].buf

C15_Witness ==
    /\ spc = "stripped"
    /\ raw = <<"\"", "a", "\"", "/", "/">>
    /\ out = <<"\"", "a", "\"">>

\* C16: single and double quote bytes toggle one shared flag: an unescaped
\* quote byte of either kind outside a comment flips it, so a double-quoted
\* string holding one apostrophe leaves the scanner outside the string and
\* a "//" after the apostrophe is treated as a comment.
C16_SharedQuoteFlag ==
    spc = "stripped" =>
        LET v == Scan
        IN  /\ \A k \in 1..(Len(v) - 1) :
                  (Normal(v[k]) /\ At(raw, v[k].i) \in {"\"", "'"}) =>
                      /\ v[k + 1].quoted = ~v[k].quoted
                      /\ v[k + 1].buf = Append(v[k].buf, At(raw, v[k].i))
            /\ \A k \in 1..(Len(v) - 4) :
                  (/\ Normal(v[k]) /\ ~v[k].quoted
                   /\ v[k].i + 3 < Len(raw)
                   /\ SubSeq(raw, v[k].i + 1, v[k].i + 4) = <<"\"", "'", "/", "/">>) =>
                      /\ ~v[k + 2].quoted
                      /\ v[k + 3].comment
                      /\ v[k + 3].buf = v[k].buf \o <<"\"", "'">>
                      /\ v[k + 4] = [v[k + 3] EXCEPT
                                       !.comment = FALSE,
                                       !.i = IF NewlinesAfter(v[k + 3]) = {}
                                             THEN Len(raw) + 1
                                             ELSE Min(NewlinesAfter(v[k + 3]))]

C16_Witness ==
    /\ spc = "stripped"
    /\ raw = <<"\"", "'", "/", "/", "\"">>
    /\ out = <<"\"", "'">>

\* the quoted flag after the bytes of s, each quote byte toggling it
QuotedAfter(s, n) == Cardinality({k \in 1..n : s[k] \in {"\"", "'"}}) % 2 = 1

\* the first '/' met outside a quoted string is followed by no '/' or '*'
LoneSlash ==
    \E p \in 1..Len(raw) :
        /\ raw[p] = "/"
        /\ \A k \in 1..(p - 1) : raw[k] \notin {"/", "\\"}
        /\ ~QuotedAfter(raw, p - 1)
        /\ \A k \in (p + 1)..Len(raw) : raw[k] \notin {"/", "*"}

\* C17: after a '/' seen outside a quoted string the scanner stays in
\* comment mode and emits nothing until it meets a '/' or a '*', whatever
\* the byte right after the '/'; so stripped output has no '/' outside a
\* quoted region, and an input whose lone '/' is never followed by a '/'
\* or '*' is returned unchanged.
C17_CommentModeUntilSlashOrStar ==
    spc = "stripped" =>
        LET v == Scan
        IN  /\ \A k \in 1..(Len(v) - 1) :
                  (Normal(v[k]) /\ ~v[k].quoted /\ At(raw, v[k].i) = "/") =>
                      v[k + 1] = [v[k] EXCEPT !.comment = TRUE, !.i = v[k].i + 1]
            /\ \A k \in 1..(Len(v) - 1) :
                  (v[k].comment /\ At(raw, v[k].i) \notin {"/", "*"}) =>
                      v[k + 1] = [v[k] EXCEPT !.i = v[k].i + 1]
            /\ ~(fin.quoted \/ fin.esc \/ fin.comment) =>
                  /\ out = fin.buf
                  /\ \A p \in 1..Len(out) : out[p] = "/" => QuotedAfter(out, p - 1)
            /\ LoneSlash => out = raw

C17_Witness ==
    /\ spc = "stripped"
    /\ raw = <<"a", "/", "a", "/", "a">>
    /\ out = <<"a">>

\* everything main checks before it calls process
Validated ==
    /\ dataArg # <<>>
    /\ formatter = (IF gi THEN "formatSource" ELSE "format.Source")
    /\ gi => \E n \in 1..Len(calls) : calls[n].op = "LookPath" /\ calls[n].how = "ok"
    /\ Len(args) > 0 /\ Len(specs) = Len(args)
    /\ \A k \in 1..Len(args) :
          /\ HasEq(args[k]) \/ HasSuffix(args[k], Ext)
          /\ specs[k].in # <<>> \/ HasEq(args[k])
    /\ \E n \in 1..Len(calls) :
          /\ calls[n].op = "ReadFile" /\ calls[n].k = 0 /\ calls[n].how = "ok"
          /\ calls[n].path = dataArg
          /\ In = StripComments(calls[n].bytes)
          /\ JSONValid(In)

\* C18: all validation precedes all generation: the data flag check, the
\* formatter selection (with the lookup of the external tool), the
\* resolution of every path argument and the reading and parsing of the
\* data document are complete before the first template is read; a run
\* that ends in any of them has read no template and written or modified
\* no file.
C18_ValidationFirst ==
    [][/\ (pc # "process" /\ pc' = "process") => Validated'
       /\ pc = "process" => UNCHANGED <<dataArg, gi, args, formatter, specs, In>>
       /\ pc # "process" =>
             /\ fs' = fs
             /\ \A n \in 1..Len(calls') : calls'[n].k = 0
       /\ (pc # "process" /\ pc' = "exit") => exitCode' \in {1, 2}]_vars

C18_Witness ==
    /\ pc = "exit" /\ exitCode = 1
    /\ Len(args) = 2 /\ specs = <<>>
    /\ HasSuffix(args[1], Ext) /\ fs[args[1]].exists
    /\ ~HasEq(args[2]) /\ ~HasSuffix(args[2], Ext)
    /\ dataArg # <<>> /\ formatter # "nil"
    /\ \A p \in Paths : p # TmplPath => ~fs[p].exists

====
